---- MODULE Spec2Model ----
(***************************************************************************)
(* Model of src/template.js: MobileAbilityTemplate (the placement session  *)
(* of a measured-template preview, driven by mouse and touch input) and    *)
(* MobileTemplateLayer (the drag-handling override).                       *)
(*                                                                         *)
(* The program is single-threaded and event driven.  One action of the     *)
(* model is one task of the event loop: the dispatch of one input event to *)
(* every handler registered for it, followed by the microtasks it queued,  *)
(* or the resumption of a handler that awaited a host promise.             *)
(*                                                                         *)
(* Host collaborators (grid, scene, layer, actor sheet, promise) are       *)
(* modelled by what the handlers observe of them.                          *)
(***************************************************************************)
EXTENDS Integers, Sequences, FiniteSets, TLC

(***************************************************************************)
(* Bounds and constants                                                    *)
(***************************************************************************)

\* Template objects the host can create (one per drawPreview call).
Templates == {1, 2}

\* Clicks on the on-screen controls are dispatched as long as the preview they
\* reach has run the termination sequence fewer than MaxFinish times.
MaxFinish == 2

\* The clock runs from Epoch to Epoch + MaxElapsed.
MaxElapsed == 30

\* The throttle of _onMovePlacement, in milliseconds.
ThrottleMs == 20

\* Date.now() at the first event: any value larger than the throttle, as
\* #moveTime starts at 0 and Date.now() counts from 1970.
Epoch == 5 * ThrottleMs

\* The size of a grid square in pixels (canvas.grid.size).
GridSize == 100

ShapeKinds == {"circle", "cone", "ray"}
PointerTypes == {"mouse", "touch"}
Layers == {"tokens", "templates"}
EventNames == {"pointermove", "mousemove", "mousedown", "touchstart"}

Point(x, y) == [x |-> x, y |-> y]

\* A handler reference: the function and the object it is bound to (0: unbound).
Handler(fn, t) == [fn |-> fn, of |-> t]
Null == Handler("null", 0)

VARIABLES
    stage,                  \* canvas.stage listeners: event name -> sequence of handlers
    oncontextmenu,          \* canvas.app.view.oncontextmenu
    onwheel,                \* canvas.app.view.onwheel
    toggle,                 \* #mobile-confirmation has class 'active'
    confirmationListeners,  \* static #confirmationListeners
    dom,                    \* listeners on the controls and the document, by count
    preview,                \* canvas.templates.preview.children
    activeLayer,            \* canvas.activeLayer
    gridless,               \* canvas.grid.type === GRIDLESS
    events,                 \* #events is set, per template
    initialLayer,           \* #initialLayer, per template
    moveTime,               \* #moveTime, per template
    doc,                    \* this.document, per template
    actorSheet,             \* this.actorSheet exists, per template
    outcome,                \* the promise activatePreviewListeners returned
    creations,              \* the state of each createEmbeddedDocuments call, per template
    persisted,              \* the positions passed to createEmbeddedDocuments, per template
    awaiting,               \* handlers suspended in await this.actorSheet.maximize()
    finishCalls,            \* _finishPlacement calls, per template
    triggered,              \* the confirm and cancel handlers called, in order, per template
    interaction,            \* the drag event the layer saw last: pointerType, interactionData.preview
    now,                    \* Date.now()
    last                    \* what the last dispatched event did

vars == <<stage, oncontextmenu, onwheel, toggle, confirmationListeners, dom,
          preview, activeLayer, gridless, events, initialLayer, moveTime, doc,
          actorSheet, outcome, creations, persisted, awaiting, finishCalls, triggered,
          interaction, now, last>>

\* The state as one record, so that a handler is a function from state to state.
State ==
    [stage |-> stage, oncontextmenu |-> oncontextmenu, onwheel |-> onwheel,
     toggle |-> toggle, confirmationListeners |-> confirmationListeners,
     dom |-> dom, preview |-> preview, activeLayer |-> activeLayer,
     gridless |-> gridless, events |-> events, initialLayer |-> initialLayer,
     moveTime |-> moveTime, doc |-> doc, actorSheet |-> actorSheet,
     outcome |-> outcome, creations |-> creations,
     persisted |-> persisted, awaiting |-> awaiting,
     finishCalls |-> finishCalls, triggered |-> triggered,
     interaction |-> interaction, now |-> now, last |-> last]

Becomes(S) ==
    /\ stage' = S.stage
    /\ oncontextmenu' = S.oncontextmenu
    /\ onwheel' = S.onwheel
    /\ toggle' = S.toggle
    /\ confirmationListeners' = S.confirmationListeners
    /\ dom' = S.dom
    /\ preview' = S.preview
    /\ activeLayer' = S.activeLayer
    /\ gridless' = S.gridless
    /\ events' = S.events
    /\ initialLayer' = S.initialLayer
    /\ moveTime' = S.moveTime
    /\ doc' = S.doc
    /\ actorSheet' = S.actorSheet
    /\ outcome' = S.outcome
    /\ creations' = S.creations
    /\ persisted' = S.persisted
    /\ awaiting' = S.awaiting
    /\ finishCalls' = S.finishCalls
    /\ triggered' = S.triggered
    /\ interaction' = S.interaction
    /\ now' = S.now
    /\ last' = S.last

Effect(kind) == [kind |-> kind, prevented |-> FALSE, refreshed |-> {}, native |-> 0]
NoEffect == Effect("none")
NoDoc == [x |-> 0, y |-> 0, direction |-> 0, t |-> "none"]
NoPayload == [kind |-> "none", k |-> 0]
NoDrag == [pointerType |-> "none", preview |-> 0]
Unsettled(st) == [state |-> st, payload |-> NoPayload]

Init ==
    /\ stage = [n \in EventNames |-> <<>>]
    /\ oncontextmenu = Null
    /\ onwheel = Null
    /\ toggle = FALSE
    /\ confirmationListeners = FALSE
    /\ dom = [confirm |-> 0, cancel |-> 0, touchmove |-> 0]
    /\ preview = <<>>
    /\ activeLayer = "tokens"
    /\ gridless \in BOOLEAN
    /\ events = [t \in Templates |-> FALSE]
    /\ initialLayer = [t \in Templates |-> "tokens"]
    /\ moveTime = [t \in Templates |-> 0]
    /\ doc = [t \in Templates |-> NoDoc]
    /\ actorSheet = [t \in Templates |-> FALSE]
    /\ outcome = [t \in Templates |-> Unsettled("none")]
    /\ creations = [t \in Templates |-> <<>>]
    /\ persisted = [t \in Templates |-> {}]
    /\ awaiting = [t \in Templates |-> [confirm |-> 0, cancel |-> 0]]
    /\ finishCalls = [t \in Templates |-> 0]
    /\ triggered = [t \in Templates |-> <<>>]
    /\ interaction = NoDrag
    /\ now = Epoch
    /\ last = NoEffect

(***************************************************************************)
(* Host services                                                           *)
(***************************************************************************)

\* canvas.grid.getSnappedPosition on one axis: the nearest multiple of
\* GridSize / interval (halves round up, as Math.round does); interval 0, the
\* gridless layout, leaves the coordinate as it is.
SnapCoord(v, interval) ==
    IF interval = 0 THEN v
    ELSE LET delta == GridSize \div interval
         IN  ((2 * v + delta) \div (2 * delta)) * delta

getSnappedPosition(x, y, interval) == Point(SnapCoord(x, interval), SnapCoord(y, interval))

\* Math.atan2(dy, dx) * (180 / Math.PI), exact on the axes and the diagonals:
\* the touch points of the model are drawn so that no other vector occurs.
Atan2Deg(dy, dx) ==
    CASE dy = 0 /\ dx >= 0 -> 0
      [] dy = 0 /\ dx < 0 -> 180
      [] dx = 0 /\ dy > 0 -> 90
      [] dx = 0 /\ dy < 0 -> -90
      [] dy = dx /\ dx > 0 -> 45
      [] dy = -dx /\ dx < 0 -> 135
      [] dy = dx /\ dx < 0 -> -135
      [] dy = -dx /\ dx > 0 -> -45

\* canvas.stage.on(name, fn) and canvas.stage.off(name, fn): off removes every
\* listener of that event whose function is fn, and no listener of another event.
StageOn(S, name, h) == [S EXCEPT !.stage[name] = Append(@, h)]
StageOff(S, name, h) == [S EXCEPT !.stage[name] = SelectSeq(@, LAMBDA g : g /= h)]

\* document.updateSource(changes) on the preview's document.
updateSource(S, t, d) == [S EXCEPT !.doc[t] = d]

\* this.refresh() of a template.
refresh(S, t) == [S EXCEPT !.last.refreshed = @ \cup {t}]

\* event.preventDefault().
preventDefault(S) == [S EXCEPT !.last.prevented = TRUE]

\* new Promise((resolve, reject) => ...): resolve and reject act on a pending
\* promise only.  resolve(p) with the promise p of a creation call makes the
\* outcome follow p: it stays unsettled, and reject no longer reaches it.
PromiseResolve(S, t, k) ==
    IF S.outcome[t].state = "pending"
    THEN [S EXCEPT !.outcome[t] = [state |-> "following", payload |-> [kind |-> "doc", k |-> k]]]
    ELSE S

\* Faulty variant: a reject that settles the outcome whatever its state.
PromiseRejectAlways(S, t) ==
    [S EXCEPT !.outcome[t] = [state |-> "rejected", payload |-> NoPayload]]

PromiseReject(S, t) ==
    IF S.outcome[t].state = "pending"
    THEN [S EXCEPT !.outcome[t] = [state |-> "rejected", payload |-> NoPayload]]
    ELSE S

(***************************************************************************)
(* MobileTemplateLayer                                                     *)
(***************************************************************************)

\* super._onDragLeftCancel(event) of the host's layer: it runs, and empties
\* the preview container.
superOnDragLeftCancel(S) ==
    [S EXCEPT !.last.native = @ + 1, !.preview = <<>>]

\* Faulty variant: the cancel override defers to the host for every event.
layerOnDragLeftCancelAlways(S, ev) == superOnDragLeftCancel(S)

layerOnDragLeftCancel(S, ev) ==
    IF ev.pointerType = "touch" THEN S ELSE superOnDragLeftCancel(S)

\* super._onDragLeftStart(event) and super._onDragLeftMove(event) of the host's
\* layer: they run; what they draw is the host's own.
superOnDragLeftStart(S) == [S EXCEPT !.last.native = @ + 1]
superOnDragLeftMove(S) == [S EXCEPT !.last.native = @ + 1]

\* Faulty variant: the start override returns for every touch event, as the move
\* and cancel overrides do.
layerOnDragLeftStartAnyTouch(S, ev) ==
    IF ev.pointerType = "touch"
    THEN (IF S.preview /= <<>> THEN [S EXCEPT !.interaction.preview = S.preview[1]] ELSE S)
    ELSE superOnDragLeftStart(S)

layerOnDragLeftStart(S, ev) ==
    IF S.preview /= <<>> /\ ev.pointerType = "touch"
    THEN [S EXCEPT !.interaction.preview = S.preview[1]]
    ELSE superOnDragLeftStart(S)

\* Faulty variant: the move override defers to the host for every event.
layerOnDragLeftMoveAlways(S, ev) == superOnDragLeftMove(S)

layerOnDragLeftMove(S, ev) ==
    IF ev.pointerType = "touch" THEN S ELSE superOnDragLeftMove(S)

(***************************************************************************)
(* MobileAbilityTemplate                                                   *)
(***************************************************************************)

\* Faulty variant: the listeners are added at every call.
mobileConfirmationListenersUnguarded(S) ==
    [S EXCEPT !.dom = [confirm |-> @.confirm + 1,
                       cancel |-> @.cancel + 1,
                       touchmove |-> @.touchmove + 1],
              !.confirmationListeners = TRUE]

mobileConfirmationListeners(S) ==
    IF S.confirmationListeners THEN S
    ELSE [S EXCEPT !.dom = [confirm |-> @.confirm + 1,
                            cancel |-> @.cancel + 1,
                            touchmove |-> @.touchmove + 1],
                   !.confirmationListeners = TRUE]

AllowedTypes == {"cone", "ray"}

\* Faulty variant: the rotation gesture is admitted for every shape kind.
RotateAdmittedAnyShape(S, ev) ==
    ~(Len(ev.touches) /= 2 \/ Len(S.preview) = 0)

\* The two early returns of _onTouchRotate, negated.
RotateAdmitted(S, ev) ==
    /\ ~(Len(ev.touches) /= 2 \/ Len(S.preview) = 0)
    /\ S.doc[S.preview[1]].t \in AllowedTypes

\* Faulty variant: the angle of the gesture is added to the direction.
onTouchRotateDelta(S, ev) ==
    IF ~RotateAdmitted(S, ev) THEN S
    ELSE LET p == S.preview[1]
             S1 == preventDefault(S)
             dx == ev.touches[2].x - ev.touches[1].x
             dy == ev.touches[2].y - ev.touches[1].y
             rotation == (S1.doc[p].direction + Atan2Deg(dy, dx)) % 360
             S2 == updateSource(S1, p, [S1.doc[p] EXCEPT !.direction = rotation])
         IN  refresh(S2, p)

onTouchRotate(S, ev) ==
    IF ~RotateAdmitted(S, ev) THEN S
    ELSE LET p == S.preview[1]
             S1 == preventDefault(S)
             dx == ev.touches[2].x - ev.touches[1].x
             dy == ev.touches[2].y - ev.touches[1].y
             rotation == Atan2Deg(dy, dx)
             S2 == updateSource(S1, p, [S1.doc[p] EXCEPT !.direction = rotation])
         IN  refresh(S2, p)

toggleMobileConfirmation(S, on) == [S EXCEPT !.toggle = on]

\* Faulty variant: the whole document coordinate is subtracted from the pivot.
centerTemplateOnScreenWhole(S, t, pivot) ==
    LET x == pivot.x - S.doc[t].x
        y == pivot.y - S.doc[t].y
    IN  refresh(updateSource(S, t, [S.doc[t] EXCEPT !.x = x, !.y = y]), t)

centerTemplateOnScreen(S, t, pivot) ==
    LET x == pivot.x - S.doc[t].x \div 2
        y == pivot.y - S.doc[t].y \div 2
    IN  refresh(updateSource(S, t, [S.doc[t] EXCEPT !.x = x, !.y = y]), t)

activatePreviewListeners(S, t, layer, pivot) ==
    LET S1 == [S EXCEPT !.initialLayer[t] = layer,
                        !.events[t] = TRUE,
                        !.outcome[t] = Unsettled("pending")]
        S2 == StageOn(S1, "pointermove", Handler("move", t))
        S3 == StageOn(S2, "mousedown", Handler("confirm", t))
        S4 == [S3 EXCEPT !.oncontextmenu = Handler("cancel", t),
                         !.onwheel = Handler("rotate", t)]
        S5 == StageOn(S4, "touchstart", Handler("touchstart", 0))
        S6 == toggleMobileConfirmation(S5, TRUE)
        S7 == mobileConfirmationListeners(S6)
    IN  centerTemplateOnScreen(S7, t, pivot)

SnapInterval(S) == IF S.gridless THEN 0 ELSE 2

\* Faulty variant: the throttle compares milliseconds with seconds.
ThrottledInSeconds(S, t) == S.now - S.moveTime[t] <= ThrottleMs \div 1000

\* The early return of _onMovePlacement.
Throttled(S, t) == S.now - S.moveTime[t] <= ThrottleMs

onMovePlacement(S, t, ev) ==
    IF Throttled(S, t) THEN S
    ELSE LET snapped == getSnappedPosition(ev.center.x, ev.center.y, SnapInterval(S))
             S1 == updateSource(S, t, [S.doc[t] EXCEPT !.x = snapped.x, !.y = snapped.y])
             S2 == refresh(S1, t)
         IN  [S2 EXCEPT !.moveTime[t] = S.now]

\* _onRotatePlacement is inherited from the host's AbilityTemplate: the wheel
\* sets the preview's direction and requests a refresh.
onRotatePlacement(S, t, ev) ==
    refresh(updateSource(S, t, [S.doc[t] EXCEPT !.direction = ev.degrees]), t)

\* _finishPlacement up to its await.  this.#initialLayer.activate() makes the
\* initial layer the active one; whether the host empties the preview container
\* as it leaves the templates layer is the host's choice (ev.hostClears).
finishPlacement(S, t, ev) ==
    LET S1 == layerOnDragLeftCancel(S, ev)
        S2 == StageOff(S1, "mousemove", Handler("move", t))
        S3 == StageOff(S2, "mousedown", Handler("confirm", t))
        S4 == StageOff(S3, "touchstart", Handler("touchstart", 0))
        S5 == toggleMobileConfirmation(S4, FALSE)
        S6 == [S5 EXCEPT !.oncontextmenu = Null, !.onwheel = Null]
        S7 == [S6 EXCEPT !.activeLayer = S6.initialLayer[t],
                         !.preview = IF ev.hostClears THEN <<>> ELSE @]
    IN  [S7 EXCEPT !.finishCalls[t] = @ + 1]

\* _onConfirmPlacement after await this._finishPlacement(event).
\* Faulty variant: confirm persists the position as it is.
DestinationUnsnapped(S, t) == Point(S.doc[t].x, S.doc[t].y)

\* The destination _onConfirmPlacement computes.
Destination(S, t) == getSnappedPosition(S.doc[t].x, S.doc[t].y, SnapInterval(S))

confirmPlacement(S, t) ==
    LET destination == Destination(S, t)
        S1 == updateSource(S, t, [S.doc[t] EXCEPT !.x = destination.x, !.y = destination.y])
        S2 == [S1 EXCEPT !.creations[t] = Append(@, "pending"),
                         !.persisted[t] = @ \cup {Point(S1.doc[t].x, S1.doc[t].y)}]
    IN  PromiseResolve(S2, t, Len(S2.creations[t]))

\* _onCancelPlacement after await this._finishPlacement(event).
cancelPlacement(S, t) == PromiseReject(S, t)

\* await this.actorSheet?.maximize(): without a sheet the handler goes on in a
\* microtask of the same task; with one it waits for the host's promise.
onConfirmPlacement(S, t, ev) ==
    LET S1 == finishPlacement([S EXCEPT !.triggered[t] = Append(@, "confirm")], t, ev)
    IN  IF S1.actorSheet[t]
        THEN [S1 EXCEPT !.awaiting[t].confirm = @ + 1]
        ELSE confirmPlacement(S1, t)

\* Faulty variant: this.actorSheet.maximize() without the optional chaining throws
\* when there is no sheet, and the handler ends before it rejects.
onCancelPlacementNoOptionalChaining(S, t, ev) ==
    LET S1 == finishPlacement([S EXCEPT !.triggered[t] = Append(@, "cancel")], t, ev)
    IN  IF S1.actorSheet[t]
        THEN [S1 EXCEPT !.awaiting[t].cancel = @ + 1]
        ELSE S1

onCancelPlacement(S, t, ev) ==
    LET S1 == finishPlacement([S EXCEPT !.triggered[t] = Append(@, "cancel")], t, ev)
    IN  IF S1.actorSheet[t]
        THEN [S1 EXCEPT !.awaiting[t].cancel = @ + 1]
        ELSE cancelPlacement(S1, t)

\* _onTouchStart: event.stopPropagation(), nothing else.
onTouchStart(S, ev) == S

(***************************************************************************)
(* Event dispatch                                                          *)
(***************************************************************************)

Call(S, h, ev) ==
    CASE h.fn = "move" -> onMovePlacement(S, h.of, ev)
      [] h.fn = "confirm" -> onConfirmPlacement(S, h.of, ev)
      [] h.fn = "cancel" -> onCancelPlacement(S, h.of, ev)
      [] h.fn = "rotate" -> onRotatePlacement(S, h.of, ev)
      [] h.fn = "touchstart" -> onTouchStart(S, ev)
      [] h.fn = "null" -> S

\* emit: every listener registered when the event is emitted is called, in the
\* order of registration, also when an earlier one deregisters a later one.
\* The microtasks of two handlers touch different templates, so running each
\* handler's microtasks right after it gives the same state.
RECURSIVE EmitTo(_, _, _)
EmitTo(S, hs, ev) ==
    IF hs = <<>> THEN S ELSE EmitTo(Call(S, Head(hs), ev), Tail(hs), ev)

Emit(S, name, ev) == EmitTo([S EXCEPT !.last = Effect(name)], S.stage[name], ev)

Event(pt, center, degrees, touches, hostClears) ==
    [pointerType |-> pt, center |-> center, degrees |-> degrees,
     touches |-> touches, hostClears |-> hostClears]

Origin == Point(0, 0)

(***************************************************************************)
(* Actions                                                                 *)
(***************************************************************************)

\* The host's drawPreview: a new template object, with the active layer as its
\* initial layer, is added to the preview container of the templates layer,
\* which becomes the active layer; then activatePreviewListeners.
Start(t, shape, xy, sheet, pivot) ==
    /\ ~events[t]
    /\ LET S0 == [State EXCEPT !.doc[t] = [x |-> xy.x, y |-> xy.y, direction |-> 0, t |-> shape],
                               !.actorSheet[t] = sheet,
                               !.preview = Append(@, t),
                               !.activeLayer = "templates",
                               !.last = Effect("start")]
       IN  Becomes(activatePreviewListeners(S0, t, activeLayer, pivot))

Tick(d) ==
    /\ now + d <= Epoch + MaxElapsed
    /\ now' = now + d
    /\ UNCHANGED <<stage, oncontextmenu, onwheel, toggle, confirmationListeners, dom,
                   preview, activeLayer, gridless, events, initialLayer, moveTime, doc,
                   actorSheet, outcome, creations, persisted, awaiting, finishCalls,
                   triggered, interaction, last>>

PointerMove(center) ==
    /\ stage["pointermove"] /= <<>>
    /\ Becomes(Emit(State, "pointermove", Event("mouse", center, 0, <<>>, FALSE)))

MouseDown(pt, hostClears) ==
    /\ stage["mousedown"] /= <<>>
    /\ Becomes(Emit(State, "mousedown", Event(pt, Origin, 0, <<>>, hostClears)))

TouchStart ==
    /\ stage["touchstart"] /= <<>>
    /\ Becomes(Emit(State, "touchstart", Event("touch", Origin, 0, <<>>, FALSE)))

ContextMenu(pt, hostClears) ==
    /\ oncontextmenu /= Null
    /\ Becomes(Call([State EXCEPT !.last = Effect("contextmenu")], oncontextmenu,
                    Event(pt, Origin, 0, <<>>, hostClears)))

Wheel(degrees) ==
    /\ onwheel /= Null
    /\ Becomes(Call([State EXCEPT !.last = Effect("wheel")], onwheel,
                    Event("mouse", Origin, degrees, <<>>, FALSE)))

\* The click listeners of the on-screen controls: event.preventDefault(), then
\* the handler of the first preview (with no preview the listener throws).
ClickConfirm(pt, hostClears) ==
    /\ dom.confirm > 0
    /\ preview /= <<>>
    /\ finishCalls[preview[1]] < MaxFinish
    /\ Becomes(onConfirmPlacement(preventDefault([State EXCEPT !.last = Effect("click")]),
                                  preview[1], Event(pt, Origin, 0, <<>>, hostClears)))

ClickCancel(pt, hostClears) ==
    /\ dom.cancel > 0
    /\ preview /= <<>>
    /\ finishCalls[preview[1]] < MaxFinish
    /\ Becomes(onCancelPlacement(preventDefault([State EXCEPT !.last = Effect("click")]),
                                 preview[1], Event(pt, Origin, 0, <<>>, hostClears)))

TouchMove(touches) ==
    /\ dom.touchmove > 0
    /\ Becomes(onTouchRotate([State EXCEPT !.last = Effect("touchmove")],
                             Event("touch", Origin, 0, touches, FALSE)))

\* The host's interaction manager hands a left-button drag on the canvas to the
\* active layer, here the templates layer: the start of a drag (an event with
\* fresh interaction data), a move, and its cancellation.
DragLeftStart(pt) ==
    /\ activeLayer = "templates"
    /\ Becomes(layerOnDragLeftStart([State EXCEPT !.last = Effect("dragstart"),
                                                  !.interaction = [pointerType |-> pt, preview |-> 0]],
                                    Event(pt, Origin, 0, <<>>, FALSE)))

DragLeftMove(pt) ==
    /\ activeLayer = "templates"
    /\ Becomes(layerOnDragLeftMove([State EXCEPT !.last = Effect("dragmove"),
                                                 !.interaction.pointerType = pt],
                                   Event(pt, Origin, 0, <<>>, FALSE)))

DragLeftCancel(pt) ==
    /\ activeLayer = "templates"
    /\ Becomes(layerOnDragLeftCancel([State EXCEPT !.last = Effect("dragcancel"),
                                                   !.interaction.pointerType = pt],
                                     Event(pt, Origin, 0, <<>>, FALSE)))

\* The host's maximize() promise settles: a suspended handler goes on.
ResumeConfirm(t) ==
    /\ awaiting[t].confirm > 0
    /\ Becomes(confirmPlacement([State EXCEPT !.awaiting[t].confirm = @ - 1], t))

ResumeCancel(t) ==
    /\ awaiting[t].cancel > 0
    /\ Becomes(cancelPlacement([State EXCEPT !.awaiting[t].cancel = @ - 1], t))

\* The promise of the k-th createEmbeddedDocuments call of t settles, and with
\* it the outcome if the outcome follows it.
CreateSettle(t, k, ok) ==
    /\ k \in 1..Len(creations[t])
    /\ creations[t][k] = "pending"
    /\ creations' = [creations EXCEPT ![t][k] = IF ok THEN "created" ELSE "failed"]
    /\ outcome' = IF outcome[t].state = "following" /\ outcome[t].payload.k = k
                  THEN [outcome EXCEPT ![t] =
                            IF ok THEN [state |-> "resolved", payload |-> [kind |-> "doc", k |-> k]]
                                  ELSE [state |-> "rejected", payload |-> [kind |-> "failure", k |-> k]]]
                  ELSE outcome
    /\ UNCHANGED <<stage, oncontextmenu, onwheel, toggle, confirmationListeners, dom,
                   preview, activeLayer, gridless, events, initialLayer, moveTime, doc,
                   actorSheet, persisted, awaiting, finishCalls, triggered, interaction,
                   now, last>>

(***************************************************************************)
(* Inputs                                                                  *)
(***************************************************************************)

InitialDocs == {Point(40, 60)}
Pivots == {Point(100, 100)}
Pointers == {Point(130, 180)}
TickSteps == {10}
WheelDegrees == {90}
TouchGestures ==
    { <<Point(0, 0)>>,
      <<Point(0, 0), Point(10, 0)>>,
      <<Point(0, 0), Point(0, 10)>>,
      <<Point(0, 0), Point(10, 0), Point(0, 10)>> }

\* One placement session, with every input.
Solo == {1}

Next ==
    \/ \E t \in Solo, shape \in ShapeKinds, xy \in InitialDocs, sheet \in BOOLEAN, pivot \in Pivots :
          Start(t, shape, xy, sheet, pivot)
    \/ \E d \in TickSteps : Tick(d)
    \/ \E c \in Pointers : PointerMove(c)
    \/ \E pt \in PointerTypes, hc \in BOOLEAN : MouseDown(pt, hc)
    \/ TouchStart
    \/ \E pt \in PointerTypes, hc \in BOOLEAN : ContextMenu(pt, hc)
    \/ \E deg \in WheelDegrees : Wheel(deg)
    \/ \E pt \in PointerTypes, hc \in BOOLEAN : ClickConfirm(pt, hc)
    \/ \E pt \in PointerTypes, hc \in BOOLEAN : ClickCancel(pt, hc)
    \/ \E g \in TouchGestures : TouchMove(g)
    \/ \E t \in Templates : ResumeConfirm(t)
    \/ \E t \in Templates : ResumeCancel(t)
    \/ \E t \in Templates, k \in 1..MaxFinish, ok \in BOOLEAN : CreateSettle(t, k, ok)

Spec == Init /\ [][Next]_vars

\* The life cycle of one session on a grid, with frozen clock: the start, the
\* moves, every confirm and cancel trigger, and the continuations.  The host's
\* promises (maximize, createEmbeddedDocuments) settle at some time, and the
\* event loop then runs what waits for them.
InitLive == Init /\ ~gridless

NextLive ==
    \/ \E t \in Solo, sheet \in BOOLEAN, xy \in InitialDocs, pivot \in Pivots :
          Start(t, "cone", xy, sheet, pivot)
    \/ \E c \in Pointers : PointerMove(c)
    \/ \E pt \in PointerTypes, hc \in BOOLEAN : MouseDown(pt, hc)
    \/ \E pt \in PointerTypes, hc \in BOOLEAN : ContextMenu(pt, hc)
    \/ \E pt \in PointerTypes, hc \in BOOLEAN : ClickConfirm(pt, hc)
    \/ \E pt \in PointerTypes, hc \in BOOLEAN : ClickCancel(pt, hc)
    \/ \E t \in Templates : ResumeConfirm(t)
    \/ \E t \in Templates : ResumeCancel(t)
    \/ \E t \in Templates, k \in 1..MaxFinish, ok \in BOOLEAN : CreateSettle(t, k, ok)

\* The life cycle without the assumption that the host's promises settle.
SpecLife == InitLive /\ [][NextLive]_vars

SpecFair ==
    /\ InitLive
    /\ [][NextLive]_vars
    /\ \A t \in Templates :
          /\ WF_vars(ResumeConfirm(t))
          /\ WF_vars(ResumeCancel(t))
          /\ \A k \in 1..MaxFinish : WF_vars(\E ok \in BOOLEAN : CreateSettle(t, k, ok))

\* Sessions one after another or at the same time, on a grid, with frozen
\* clock and no actor sheet: the host's drawPreview is called for each template
\* object, every confirm and cancel trigger is delivered, and the interaction
\* manager delivers left-button drags to the templates layer.
NextMulti ==
    \/ \E t \in Templates, xy \in InitialDocs, pivot \in Pivots :
          Start(t, "cone", xy, FALSE, pivot)
    \/ \E pt \in PointerTypes, hc \in BOOLEAN : MouseDown(pt, hc)
    \/ \E pt \in PointerTypes, hc \in BOOLEAN : ContextMenu(pt, hc)
    \/ \E pt \in PointerTypes, hc \in BOOLEAN : ClickConfirm(pt, hc)
    \/ \E pt \in PointerTypes, hc \in BOOLEAN : ClickCancel(pt, hc)
    \/ \E pt \in PointerTypes : DragLeftStart(pt)
    \/ \E pt \in PointerTypes : DragLeftMove(pt)
    \/ \E pt \in PointerTypes : DragLeftCancel(pt)
    \/ \E t \in Templates, k \in 1..MaxFinish, ok \in BOOLEAN : CreateSettle(t, k, ok)

SpecMulti == InitLive /\ [][NextMulti]_vars

(***************************************************************************)
(* Vocabulary of the properties                                            *)
(***************************************************************************)

Started(t) == events[t]

\* A confirm or cancel handler of t has run _finishPlacement up to its await.
TerminationBegun(t) == finishCalls[t] > 0

\* Every confirm and cancel handler called on t has run to its end.
Terminated(t) ==
    /\ TerminationBegun(t)
    /\ awaiting[t].confirm = 0
    /\ awaiting[t].cancel = 0

Settled(t) == outcome[t].state \in {"resolved", "rejected"}
Cancelled(t) == outcome[t] = [state |-> "rejected", payload |-> NoPayload]

OnStage(name, h) == \E i \in 1..Len(stage[name]) : stage[name][i] = h
OnAnySource(h) ==
    \/ \E name \in EventNames : OnStage(name, h)
    \/ oncontextmenu = h
    \/ onwheel = h

\* The handlers activatePreviewListeners binds for t.
BoundAtStart(t) ==
    {Handler("move", t), Handler("confirm", t), Handler("cancel", t),
     Handler("rotate", t), Handler("touchstart", 0)}

Position(d) == Point(d.x, d.y)

\* The steps that deliver a move or rotate input event (each leaves its kind
\* in last, which is tested first).
PointerMoveStep == last'.kind = "pointermove" /\ \E c \in Pointers : PointerMove(c)
WheelStep == last'.kind = "wheel" /\ \E deg \in WheelDegrees : Wheel(deg)
TouchMoveStep == last'.kind = "touchmove" /\ \E g \in TouchGestures : TouchMove(g)

(***************************************************************************)
(* C1                                                                      *)
(***************************************************************************)

\* C1: after a session has terminated through confirm or cancel, none of the
\* handlers bound at its start is registered on a device event source, and the
\* confirmation toggle is off.
C1_NoHandlerRemains ==
    \A t \in Templates :
        Terminated(t) =>
            /\ \A h \in BoundAtStart(t) : ~OnAnySource(h)
            /\ ~toggle

(***************************************************************************)
(* C2                                                                      *)
(***************************************************************************)

\* C2: the outcome of a session is settled at most once.  A settled outcome
\* never changes, and an outcome resolved with the promise of a creation call
\* only takes the result of that call: no later reject or resolve reaches it.
C2_SettledAtMostOnce ==
    [][\A t \in Templates :
          /\ Settled(t) => outcome'[t] = outcome[t]
          /\ outcome[t].state = "following" =>
                /\ outcome'[t].state \in {"following", "resolved", "rejected"}
                /\ outcome'[t].payload.k = outcome[t].payload.k
                /\ outcome'[t].state = "resolved" => outcome'[t].payload.kind = "doc"
                /\ outcome'[t].state = "rejected" => outcome'[t].payload.kind = "failure"]_vars

\* A cancellation settled the outcome, and a confirm handler called resolve on
\* it afterwards.
C2_Witness ==
    \E t \in Templates : Cancelled(t) /\ creations[t] /= <<>>

(***************************************************************************)
(* C3                                                                      *)
(***************************************************************************)

\* C3: the first of confirm and cancel to be triggered decides the outcome.
\* Cancel first: the outcome is never resolved (it stays pending until it is
\* rejected without payload).  Confirm first: the outcome is never the
\* cancellation (it is resolved with the creation call, whose failure it takes).
C3_FirstTriggerWins ==
    \A t \in Templates :
        triggered[t] /= <<>> =>
            /\ triggered[t][1] = "cancel" => (outcome[t].state = "pending" \/ Cancelled(t))
            /\ triggered[t][1] = "confirm" => ~Cancelled(t)

(***************************************************************************)
(* C4                                                                      *)
(***************************************************************************)

\* C4: once the termination of a session has begun, no move or rotate input
\* event (pointer move, wheel, touch move) changes the position or the
\* direction of its preview.
C4_NoMoveAfterTermination ==
    [][(PointerMoveStep \/ WheelStep \/ TouchMoveStep) =>
          \A t \in Templates : TerminationBegun(t) => doc'[t] = doc[t]]_vars

(***************************************************************************)
(* C5                                                                      *)
(***************************************************************************)

\* C5: a session whose outcome is the cancellation (rejected, no payload) has
\* made no createEmbeddedDocuments call.
C5_CancelCreatesNothing ==
    \A t \in Templates : Cancelled(t) => creations[t] = <<>>

(***************************************************************************)
(* C6                                                                      *)
(***************************************************************************)

\* The offsets, among those given, at which a move event delivered to t at
\* start + offset is accepted, the events being delivered in order from S.
RECURSIVE AcceptedAt(_, _, _, _, _)
AcceptedAt(S, t, c, start, offsets) ==
    IF offsets = <<>> THEN {}
    ELSE LET S0 == [S EXCEPT !.now = start + Head(offsets), !.last = Effect("pointermove")]
             S1 == onMovePlacement(S0, t, Event("mouse", c, 0, <<>>, FALSE))
         IN  (IF t \in S1.last.refreshed /\ Position(S1.doc[t]) = getSnappedPosition(c.x, c.y, SnapInterval(S))
              THEN {Head(offsets)} ELSE {})
             \cup AcceptedAt(S1, t, c, start, Tail(offsets))

\* A session that has just started: of move events 0, 5, 25 and 30 ms later,
\* those at 0 and 25 update the position.
C6_Example ==
    \A t \in Templates, c \in Pointers :
        (last.kind = "start" /\ Started(t) /\ moveTime[t] = 0) =>
            AcceptedAt(State, t, c, now, <<0, 5, 25, 30>>) = {0, 25}

C6_Dropped(t) ==
    /\ doc'[t] = doc[t]
    /\ t \notin last'.refreshed
    /\ moveTime'[t] = moveTime[t]

C6_Step ==
    /\ moveTime' /= moveTime => PointerMoveStep
    /\ PointerMoveStep =>
          \A t \in Templates :
              /\ (OnStage("pointermove", Handler("move", t)) /\ now - moveTime[t] < ThrottleMs)
                     => C6_Dropped(t)
              /\ moveTime'[t] /= moveTime[t] =>
                     /\ OnStage("pointermove", Handler("move", t))
                     /\ t \in last'.refreshed
                     /\ moveTime'[t] = now
              /\ t \in last'.refreshed => moveTime'[t] = now

\* C6: a move event that arrives less than 20 ms after the last accepted one is
\* dropped (no position update, no refresh); #moveTime changes only when a move
\* event is accepted, to the time of that event; of the events at 0, 5, 25 and
\* 30 ms after the start of a session, those at 0 and 25 update the position.
C6_MoveThrottle == []C6_Example /\ [][C6_Step]_vars

\* A move event was dropped 10 ms after an accepted one.
C6_Witness ==
    \E t \in Templates :
        /\ last.kind = "pointermove"
        /\ OnStage("pointermove", Handler("move", t))
        /\ t \notin last.refreshed
        /\ now - moveTime[t] = 10

(***************************************************************************)
(* C7                                                                      *)
(***************************************************************************)

IsSnapped(p) == getSnappedPosition(p.x, p.y, SnapInterval(State)) = p

\* t's handler went past its await in this step: it was resumed, or it has no
\* sheet to wait for and ran _finishPlacement in this very task.
C7_CleanupDone(t) ==
    \/ awaiting'[t].confirm < awaiting[t].confirm
    \/ awaiting'[t].cancel < awaiting[t].cancel
    \/ ~actorSheet'[t] /\ finishCalls'[t] > finishCalls[t]

C7_Step ==
    \A t \in Templates :
        /\ Len(creations'[t]) > Len(creations[t]) =>
              /\ C7_CleanupDone(t)
              /\ finishCalls'[t] > 0
              /\ ~OnStage("mousedown", Handler("confirm", t))'
              /\ LET d == getSnappedPosition(doc[t].x, doc[t].y, SnapInterval(State))
                 IN  /\ Position(doc'[t]) = d
                     /\ persisted'[t] = persisted[t] \cup {d}
        /\ (outcome[t].state = "pending" /\ outcome'[t].state /= "pending") =>
              /\ C7_CleanupDone(t)
              /\ finishCalls'[t] > 0
              /\ outcome'[t].state = "following" =>
                    /\ Len(creations'[t]) = Len(creations[t]) + 1
                    /\ outcome'[t].payload.k = Len(creations'[t])

\* C7: confirm runs the termination cleanup, then snaps the preview's position
\* and applies it, then calls createEmbeddedDocuments with the snapped position,
\* then settles the outcome with that call: every persisted position is a
\* snapped one, and the outcome leaves "pending" only after the cleanup.
C7_ConfirmOrder ==
    /\ [](\A t \in Templates : \A p \in persisted[t] : IsSnapped(p))
    /\ [][C7_Step]_vars

\* On a grid, the centred position (80, 70) was persisted as (100, 50), and the
\* outcome was resolved with the created template.
C7_Witness ==
    \E t \in Templates :
        /\ ~gridless
        /\ Point(100, 50) \in persisted[t]
        /\ outcome[t].state = "resolved"

(***************************************************************************)
(* C8                                                                      *)
(***************************************************************************)

\* C8: if a createEmbeddedDocuments call made by confirm fails, the outcome is
\* rejected with that failure.
C8_FailurePropagates ==
    \A t \in Templates : \A k \in 1..Len(creations[t]) :
        creations[t][k] = "failed" =>
            outcome[t] = [state |-> "rejected", payload |-> [kind |-> "failure", k |-> k]]

(***************************************************************************)
(* C9                                                                      *)
(***************************************************************************)

\* After its termination has begun, an unsettled outcome always has what settles
\* it under way: a suspended handler, or the creation call it follows.
C9_Progress ==
    \A t \in Templates :
        TerminationBegun(t) =>
            /\ outcome[t].state = "pending" => awaiting[t].confirm + awaiting[t].cancel > 0
            /\ outcome[t].state = "following" =>
                   /\ outcome[t].payload.k \in 1..Len(creations[t])
                   /\ creations[t][outcome[t].payload.k] = "pending"
            /\ outcome[t].state /= "none"

\* A handler of a session without actor sheet runs every cleanup step and goes
\* on to the settlement in the same task.
C9_NoSheetStep ==
    \A t \in Templates :
        (finishCalls'[t] > finishCalls[t] /\ ~actorSheet[t]) =>
            /\ awaiting'[t] = awaiting[t]
            /\ outcome'[t].state /= "pending"
            /\ ~OnStage("mousedown", Handler("confirm", t))'
            /\ ~OnStage("touchstart", Handler("touchstart", 0))'
            /\ ~toggle'
            /\ oncontextmenu' = Null
            /\ onwheel' = Null
            /\ activeLayer' = initialLayer[t]

\* C9: once confirm or cancel has been triggered the termination completes and
\* the outcome is settled in the end, also for a session without actor sheet,
\* whose handler skips no cleanup step.
C9_TerminationCompletes ==
    /\ []C9_Progress
    /\ [][C9_NoSheetStep]_vars
    /\ \A t \in Templates : TerminationBegun(t) ~> Settled(t)

\* A session without actor sheet was cancelled: its outcome is settled.
C9_Witness ==
    \E t \in Templates :
        /\ ~actorSheet[t]
        /\ triggered[t] = <<"cancel">>
        /\ Cancelled(t)
        /\ ~toggle

(***************************************************************************)
(* C10                                                                     *)
(***************************************************************************)

C10_Step ==
    (/\ last'.kind = "touchmove"
     /\ \/ doc' /= doc
        \/ last'.refreshed /= {}
        \/ last'.prevented) =>
        \A g \in TouchGestures :
            TouchMove(g) =>
                /\ Len(g) = 2
                /\ preview /= <<>>
                /\ doc[preview[1]].t \in {"cone", "ray"}

\* C10: a touch-move event with other than two touch points, with no preview,
\* or with a preview that is neither cone nor ray, changes no preview's
\* direction or position, requests no refresh and is not default-prevented.
C10_RotateAdmission == [][C10_Step]_vars

\* A touch-move event was ignored while a circle was being placed.
C10_Witness ==
    /\ last.kind = "touchmove"
    /\ ~last.prevented
    /\ last.refreshed = {}
    /\ preview /= <<>>
    /\ doc[preview[1]].t = "circle"
    /\ ~TerminationBegun(preview[1])

(***************************************************************************)
(* C11                                                                     *)
(***************************************************************************)

\* The angle of the vector from the first touch point to the second, for the
\* gestures of the claim.
C11_Angle(g) ==
    CASE g = <<Point(0, 0), Point(10, 0)>> -> 0
      [] g = <<Point(0, 0), Point(0, 10)>> -> 90

C11_Gestures == {g \in TouchGestures : Len(g) = 2}

C11_Step ==
    last'.kind = "touchmove" =>
        \A g \in C11_Gestures :
            (/\ preview /= <<>>
             /\ doc[preview[1]].t \in {"cone", "ray"}
             /\ TouchMove(g)) =>
                /\ doc' = [doc EXCEPT ![preview[1]].direction = C11_Angle(g)]
                /\ last'.refreshed = {preview[1]}
                /\ last'.prevented

\* After a start, a wheel turn or a touch move: a gesture sets its angle, and
\* the same gesture again changes nothing.
C11_Repeat ==
    \A g \in C11_Gestures :
        (/\ last.kind \in {"start", "wheel", "touchmove"}
         /\ preview /= <<>>
         /\ doc[preview[1]].t \in {"cone", "ray"}) =>
            LET ev == Event("touch", Origin, 0, g, FALSE)
                S1 == onTouchRotate([State EXCEPT !.last = Effect("touchmove")], ev)
                S2 == onTouchRotate([S1 EXCEPT !.last = Effect("touchmove")], ev)
            IN  /\ S1.doc[preview[1]].direction = C11_Angle(g)
                /\ S2.doc = S1.doc

\* C11: an admitted two-finger rotation sets the direction of the first preview
\* to the angle of the vector from the first touch point to the second,
\* whatever the direction was: (0,0),(10,0) gives 0 and (0,0),(0,10) gives 90,
\* and the same gesture again leaves the direction as it is.
C11_AbsoluteRotation == []C11_Repeat /\ [][C11_Step]_vars

\* A two-finger gesture turned a preview to 90 degrees.
C11_Witness ==
    /\ last.kind = "touchmove"
    /\ last.prevented
    /\ preview /= <<>>
    /\ last.refreshed = {preview[1]}
    /\ doc[preview[1]].direction = 90
    /\ ~TerminationBegun(preview[1])

(***************************************************************************)
(* C12                                                                     *)
(***************************************************************************)

\* Document coordinates (even, so that their halves are integers) and pivots.
C12_Docs == {Point(40, 60), Point(0, 0), Point(200, 20)}
C12_Pivots == {Point(100, 100), Point(0, 0), Point(-50, 30)}

\* _centerTemplateOnScreen on its own, on a template of a program in which a
\* session has just started.
C12_Centering ==
    last.kind = "start" =>
    \A t \in Templates, xy \in C12_Docs, pivot \in C12_Pivots :
        LET S0 == [State EXCEPT !.doc[t].x = xy.x, !.doc[t].y = xy.y, !.last = Effect("start")]
            S1 == centerTemplateOnScreen(S0, t, pivot)
        IN  /\ 2 * (pivot.x - S1.doc[t].x) = xy.x
            /\ 2 * (pivot.y - S1.doc[t].y) = xy.y
            /\ S1.doc[t].direction = S0.doc[t].direction
            /\ S1.last.refreshed = {t}
            /\ (xy = Point(40, 60) /\ pivot = Point(100, 100)) =>
                   Position(S1.doc[t]) = Point(80, 70)

C12_Step ==
    events' /= events =>
        \A t \in Templates, shape \in ShapeKinds, xy \in InitialDocs,
           sheet \in BOOLEAN, pivot \in Pivots :
            Start(t, shape, xy, sheet, pivot) =>
                /\ 2 * (pivot.x - doc'[t].x) = xy.x
                /\ 2 * (pivot.y - doc'[t].y) = xy.y
                /\ t \in last'.refreshed
                /\ (xy = Point(40, 60) /\ pivot = Point(100, 100)) =>
                       Position(doc'[t]) = Point(80, 70)

\* C12: the start of a session puts the preview at the viewport pivot minus
\* half of its document coordinate on each axis and requests a refresh: pivot
\* (100,100) and document coordinate (40,60) give (80,70).
C12_CenteredOnStart == []C12_Centering /\ [][C12_Step]_vars

\* A session has just started, and its preview is at (80, 70).
C12_Witness ==
    \E t \in Templates :
        /\ last.kind = "start"
        /\ Started(t)
        /\ t \in last.refreshed
        /\ Position(doc[t]) = Point(80, 70)

(***************************************************************************)
(* C13                                                                     *)
(***************************************************************************)

\* What a drag event leaves when the host's native handling did not run, and
\* when it ran once.
C13_Suppressed == last'.native = 0 /\ preview' = preview
C13_Native == last'.native = 1

C13_Step ==
    last'.kind \in {"dragstart", "dragmove", "dragcancel"} =>
        \A pt \in PointerTypes :
            /\ DragLeftStart(pt) =>
                  /\ (pt = "touch" /\ preview /= <<>>) => C13_Suppressed
                  /\ pt /= "touch" => C13_Native
            /\ DragLeftMove(pt) =>
                  /\ (pt = "touch" /\ preview /= <<>>) => C13_Suppressed
                  /\ pt /= "touch" => C13_Native
            /\ DragLeftCancel(pt) =>
                  /\ (pt = "touch" /\ preview /= <<>>) => C13_Suppressed
                  /\ pt /= "touch" => C13_Native

\* C13: a touch-sourced drag start, move or cancel that reaches the layer while
\* a preview is in the container never runs the host's native handling; one
\* that is not touch-sourced always runs it, once.
C13_DragOverrides == [][C13_Step]_vars

\* A touch-sourced drag started over the preview of a running session: the
\* host's handling did not run, and the preview is in the interaction data.
C13_Witness ==
    /\ last.kind = "dragstart"
    /\ last.native = 0
    /\ interaction.pointerType = "touch"
    /\ preview /= <<>>
    /\ interaction.preview = preview[1]
    /\ ~TerminationBegun(preview[1])

(***************************************************************************)
(* C14                                                                     *)
(***************************************************************************)

\* A session is active from activatePreviewListeners until a confirm or cancel
\* handler has run to its end.
Active(t) == Started(t) /\ ~Terminated(t)

\* C14: at most one placement session is active at any time.
C14_AtMostOneActive ==
    Cardinality({t \in Templates : Active(t)}) <= 1

(***************************************************************************)
(* C15                                                                     *)
(***************************************************************************)

\* C15: the termination sequence (_finishPlacement) runs exactly once per
\* session: once a confirm or cancel trigger has run it, no later trigger runs
\* it again.
C15_FinishOnce ==
    \A t \in Templates : finishCalls[t] <= 1

(***************************************************************************)
(* C16                                                                     *)
(***************************************************************************)

C16_Step ==
    \A t \in Templates :
        finishCalls'[t] > finishCalls[t] =>
            /\ awaiting'[t] = awaiting[t]
            /\ triggered'[t][Len(triggered'[t])] = "cancel" => outcome'[t].state /= "pending"
            /\ triggered'[t][Len(triggered'[t])] = "confirm" =>
                   Len(creations'[t]) > Len(creations[t])

\* C16: a confirm or cancel handler is suspended nowhere between the start of
\* the termination and the persistence call (confirm) or the settlement
\* (cancel): the task that starts the termination also rejects the outcome or
\* calls createEmbeddedDocuments, and leaves no handler waiting.
C16_NoSuspension == [][C16_Step]_vars

(***************************************************************************)
(* C17                                                                     *)
(***************************************************************************)

C17_Step ==
    PointerMoveStep =>
        \A t \in Templates :
            OnStage("pointermove", Handler("move", t)) =>
                /\ now - moveTime[t] < ThrottleMs => C6_Dropped(t)
                /\ now - moveTime[t] >= ThrottleMs =>
                      /\ moveTime'[t] = now
                      /\ t \in last'.refreshed

\* C17: a move event is dropped only if it arrives less than 20 ms after the
\* last accepted one: an event that arrives 20 ms or more after it is accepted
\* (the position is updated, a refresh requested, the time recorded).
C17_MinimumInterval == [][C17_Step]_vars

(***************************************************************************)
(* C18                                                                     *)
(***************************************************************************)

C18_Registered == [confirm |-> 1, cancel |-> 1, touchmove |-> 1]

\* From the first start on, each of the three listeners is there exactly once,
\* whatever has started and terminated since.
C18_Once ==
    /\ dom = (IF confirmationListeners THEN C18_Registered
              ELSE [confirm |-> 0, cancel |-> 0, touchmove |-> 0])
    /\ (\E t \in Templates : Started(t)) => confirmationListeners

C18_Step ==
    /\ dom' /= dom => dom = [confirm |-> 0, cancel |-> 0, touchmove |-> 0] /\ last'.kind = "start"
    /\ (last'.kind = "click" /\ (triggered' /= triggered \/ finishCalls' /= finishCalls)) =>
          /\ preview /= <<>>
          /\ \A t \in Templates :
                (triggered'[t] /= triggered[t] \/ finishCalls'[t] /= finishCalls[t])
                    <=> t = preview[1]

\* C18: over sessions started one after another, the click listeners of the
\* on-screen controls and the touch-move listener of the document are each
\* registered once, by the first start, and no termination removes them; a
\* click runs the handler of the preview that is first in the container when
\* it is clicked, and of no other.
C18_SharedListeners == []C18_Once /\ [][C18_Step]_vars

\* One session has terminated; a touch click on the confirm control, through
\* the listener registered once, reached the other session, whose preview is
\* the first and only one in the container.
C18_Witness ==
    \E t, u \in Templates :
        /\ t /= u
        /\ Terminated(t)
        /\ triggered[t] /= <<>>
        /\ dom = C18_Registered
        /\ last.kind = "click"
        /\ preview = <<u>>
        /\ triggered[u] = <<"confirm">>

(***************************************************************************)
(* C19                                                                     *)
(***************************************************************************)

\* The _finishPlacement calls of a step.
C19_Calls(t) == finishCalls'[t] - finishCalls[t]

\* The termination steps other than the drag-cancel notification, for t.
C19_OtherSteps(t) ==
    /\ ~OnStage("mousedown", Handler("confirm", t))'
    /\ ~OnStage("touchstart", Handler("touchstart", 0))'
    /\ ~toggle'
    /\ oncontextmenu' = Null
    /\ onwheel' = Null
    /\ activeLayer' = initialLayer[t]
    /\ actorSheet[t] => awaiting'[t].confirm + awaiting'[t].cancel
                            = awaiting[t].confirm + awaiting[t].cancel + 1

C19_Ended(pt, hostClears) ==
    \E t \in Templates :
        /\ C19_Calls(t) = 1
        /\ \A u \in Templates \ {t} : C19_Calls(u) = 0
        /\ C19_OtherSteps(t)
        /\ last'.native = (IF pt = "touch" THEN 0 ELSE 1)
        /\ (pt = "touch" /\ ~hostClears) => preview' = preview

C19_Step ==
    finishCalls' /= finishCalls =>
        \A pt \in PointerTypes, hc \in BOOLEAN :
            /\ last'.kind = "mousedown" => (MouseDown(pt, hc) => C19_Ended(pt, hc))
            /\ last'.kind = "contextmenu" => (ContextMenu(pt, hc) => C19_Ended(pt, hc))
            /\ last'.kind = "click" =>
                  /\ ClickConfirm(pt, hc) => C19_Ended(pt, hc)
                  /\ ClickCancel(pt, hc) => C19_Ended(pt, hc)

\* C19: when the event that ends a placement is touch-sourced, the drag-cancel
\* notification of the termination sequence does not run the host's native
\* drag-cancel handling, and every other termination step runs; when it is not
\* touch-sourced, the native handling runs once per _finishPlacement call.
C19_TouchSkipsNativeCancel == [][C19_Step]_vars

\* A touch-sourced mouse-down confirmed a session: the native drag-cancel did
\* not run and the preview is still in the container, the cleanup is done.
C19_Witness ==
    \E t \in Templates :
        /\ last.kind = "mousedown"
        /\ last.native = 0
        /\ finishCalls[t] = 1
        /\ preview = <<t>>
        /\ ~toggle
        /\ oncontextmenu = Null

(***************************************************************************)
(* C20                                                                     *)
(***************************************************************************)

C20_Step ==
    /\ last'.kind = "dragstart" =>
          (DragLeftStart("touch") =>
              /\ preview = <<>> => (last'.native = 1 /\ interaction'.preview = 0)
              /\ preview /= <<>> => (last'.native = 0 /\ interaction'.preview = preview[1]))
    /\ last'.kind = "dragmove" =>
          (DragLeftMove("touch") => last'.native = 0)
    /\ last'.kind = "dragcancel" =>
          (DragLeftCancel("touch") => (last'.native = 0 /\ preview' = preview))

\* C20: with no preview in the container a touch-sourced drag start is handed
\* to the host's native handling, while a touch-sourced drag move or cancel is
\* never handed to it, with or without a preview.
C20_TouchWithoutPreview == [][C20_Step]_vars

\* With the container empty, a touch-sourced drag start ran the host's native
\* handling.
C20_Witness ==
    /\ last.kind = "dragstart"
    /\ interaction.pointerType = "touch"
    /\ preview = <<>>
    /\ last.native = 1

====
